---- MODULE Spec2Model ----
(***************************************************************************)
(* Upscaler Photo Bot (src/bot.py): the user registry, the chat command    *)
(* router with its broadcast loop, the /upscale HTTP gateway and the       *)
(* process entry point, as state machines.                                 *)
(*                                                                         *)
(*   Spec          the broadcast loop with /start events in between        *)
(*   SpecRouter    every event handler, over a small table                 *)
(*   SpecRegistry  the registry functions called directly                  *)
(*   SpecGateway   main(), run_bot(), run_server() and the HTTP handlers   *)
(***************************************************************************)
EXTENDS Integers, Sequences, FiniteSets, TLC

VARIABLES
    ADMIN_ID,   \* bot.py:35, read once from the environment
    users,      \* the rows of table users (bot.py:56-62)
    now,        \* the database clock (CURRENT_TIMESTAMP / datetime.now())
    jobs,       \* the frames of the running cmd_broadcast coroutines
    log,        \* history: per job, one entry per delivery attempt
    quiet,      \* history: per job, no other handler ran since it started
    late,       \* history: per job, ids /start made active during the job
    last,       \* history: the handler step that ran last and what it sent
    lastReg,    \* history: the registry call made last
    http,       \* history: the HTTP exchange served last
    proc,       \* main(): the two gathered tasks and the exit status
    status_msg, \* history: per job, what it wrote to its status message
    report,     \* history: the result of the registry query made last
    arrivals,   \* history: the ids in the order of their first add_user
    thread      \* what the only thread of the process is running

vars == <<ADMIN_ID, users, now, jobs, log, quiet, late, last, lastReg, http,
          proc, status_msg, report, arrivals, thread>>

(***************************************************************************)
(* Bounds of the model.                                                    *)
(***************************************************************************)
\* accounts already in the table when the process starts (ids 1..NumPreloaded)
NumPreloaded == 20
\* accounts in the table at the start of SpecRouter (ids 1..NumRouterRows)
NumRouterRows == 2
\* ids used by the direct registry calls of SpecRegistry (1..NumRegIds)
NumRegIds == 2
\* the clock runs 0..MaxNow
MaxNow == 1
\* longest byte string a request or payload carries
MaxBytes == 2

None == "None"

\* the image of a payload that has none; no payload; no attachment
NoImage == [kind |-> "absent", scheme |-> FALSE, segs |-> <<>>]

NoPayload == [json |-> "none", action |-> None, image |-> NoImage]

NoDoc == [attached |-> FALSE, bytes |-> <<>>]

(***************************************************************************)
(* Generic helpers.                                                        *)
(***************************************************************************)
Range(s) == {s[k] : k \in 1..Len(s)}

Min(S) == CHOOSE m \in S : \A x \in S : m <= x

Max(S) == CHOOSE m \in S : \A x \in S : m >= x

RECURSIVE AscSeq(_)
AscSeq(S) == IF S = {} THEN <<>> ELSE <<Min(S)>> \o AscSeq(S \ {Min(S)})

RECURSIVE DescSeq(_)
DescSeq(S) == IF S = {} THEN <<>> ELSE <<Max(S)>> \o DescSeq(S \ {Max(S)})

\* Python: sub in s
Contains(sub, s) ==
    \E k \in 0..(Len(s) - Len(sub)) : SubSeq(s, k + 1, k + Len(sub)) = sub

UpperChars == <<"A","B","C","D","E","F","G","H","I","J","K","L","M",
                "N","O","P","Q","R","S","T","U","V","W","X","Y","Z">>

LowerChars == <<"a","b","c","d","e","f","g","h","i","j","k","l","m",
                "n","o","p","q","r","s","t","u","v","w","x","y","z">>

\* Python: str.lower(), one character
LowerChar(c) ==
    IF \E k \in 1..Len(UpperChars) : UpperChars[k] = c
    THEN LowerChars[CHOOSE k \in 1..Len(UpperChars) : UpperChars[k] = c]
    ELSE c

\* Python: str.lower()
Lower(s) == [k \in 1..Len(s) |-> LowerChar(s[k])]

(***************************************************************************)
(* The registry: table users and the functions over it.                    *)
(*   row == [id, username, first_name, joined, active]                     *)
(* The table is a set of rows; nothing in the representation forces one    *)
(* row per id, that is add_user's ON CONFLICT clause.                      *)
(***************************************************************************)
Row(user_id, username, first_name, joined, active) ==
    [id |-> user_id, username |-> username, first_name |-> first_name,
     joined |-> joined, active |-> active]

RowsOf(us, user_id) == {r \in us : r.id = user_id}

IdsOf(us) == {r.id : r \in us}

\* how the registry holds an id: "absent", "active" or "inactive"
Reach(us, user_id) ==
    IF RowsOf(us, user_id) = {} THEN "absent"
    ELSE IF \E r \in RowsOf(us, user_id) : r.active THEN "active"
    ELSE "inactive"

\* a plain INSERT on a table without the primary key
add_user_plain_insert(us, user_id, username, first_name, ts) ==
    us \cup {Row(user_id, username, first_name, ts, TRUE)}

\* ON CONFLICT updating the two fields but not the flag
add_user_keeps_flag(us, user_id, username, first_name, ts) ==
    IF RowsOf(us, user_id) # {}
    THEN {IF r.id = user_id
          THEN [r EXCEPT !.username = username, !.first_name = first_name]
          ELSE r : r \in us}
    ELSE us \cup {Row(user_id, username, first_name, ts, TRUE)}

\* the upsert as DELETE and INSERT: the new row takes the defaults again
add_user_replace(us, user_id, username, first_name, ts) ==
    (us \ RowsOf(us, user_id)) \cup {Row(user_id, username, first_name, ts, TRUE)}

\* INSERT ... ON CONFLICT (id) DO UPDATE SET username, first_name, active = TRUE;
\* joined takes DEFAULT CURRENT_TIMESTAMP on insert only
add_user(us, user_id, username, first_name, ts) ==
    IF RowsOf(us, user_id) # {}
    THEN {IF r.id = user_id
          THEN [r EXCEPT !.username = username, !.first_name = first_name,
                         !.active = TRUE]
          ELSE r : r \in us}
    ELSE us \cup {Row(user_id, username, first_name, ts, TRUE)}

\* SELECT id FROM users WHERE active = TRUE: the set the query selects
ActiveIds(us) == {r.id : r \in {q \in us : q.active}}

\* the query has no ORDER BY: the row order is the engine's choice, modelled
\* as ascending or descending id
RowOrders == {"asc", "desc"}

\* the query without its WHERE clause
get_all_user_ids_everyone(us, order) ==
    IF order = "asc" THEN AscSeq(IdsOf(us)) ELSE DescSeq(IdsOf(us))

get_all_user_ids(us, order) ==
    IF order = "asc" THEN AscSeq(ActiveIds(us)) ELSE DescSeq(ActiveIds(us))

\* bot.py:119: timedelta(hours=24), the clock counting hours
Day == 24

\* the comparison of joined with day_ago turned round
get_stats_older(us, t) ==
    [total |-> Cardinality(us),
     new_24h |-> Cardinality({r \in us : r.joined < t - Day}),
     active |-> Cardinality({r \in us : r.active})]

\* bot.py:108-126: COUNT(*), COUNT(*) WHERE active = TRUE and
\* COUNT(*) WHERE joined > day_ago, with day_ago = datetime.now() - 24 h
get_stats(us, t) ==
    [total |-> Cardinality(us),
     new_24h |-> Cardinality({r \in us : r.joined > t - Day}),
     active |-> Cardinality({r \in us : r.active})]

\* the row ORDER BY joined DESC puts first: the latest joined, and among
\* rows of one joined the engine's choice
FirstByJoined(us, order) ==
    LET latest == {r \in us : \A q \in us : q.joined <= r.joined}
    IN  CHOOSE r \in latest :
            \A q \in latest : IF order = "asc" THEN r.id <= q.id
                                               ELSE r.id >= q.id

\* the row ORDER BY joined ASC puts first
FirstByJoined_asc(us, order) ==
    LET earliest == {r \in us : \A q \in us : q.joined >= r.joined}
    IN  CHOOSE r \in earliest :
            \A q \in earliest : IF order = "asc" THEN r.id <= q.id
                                                 ELSE r.id >= q.id

\* the query with ORDER BY joined ASC
RECURSIVE export_users_asc(_, _)
export_users_asc(us, order) ==
    IF us = {} THEN <<>>
    ELSE <<FirstByJoined_asc(us, order)>>
         \o export_users_asc(us \ {FirstByJoined_asc(us, order)}, order)

\* bot.py:129-137: SELECT id, username, first_name, joined, active
\* FROM users ORDER BY joined DESC
RECURSIVE export_users(_, _)
export_users(us, order) ==
    IF us = {} THEN <<>>
    ELSE <<FirstByJoined(us, order)>>
         \o export_users(us \ {FirstByJoined(us, order)}, order)

\* bot.py:300-308: the header and one line per row, None written as ''
csv_lines(rows) ==
    <<<<"ID", "Username", "Name", "Joined", "Active">>>>
    \o [k \in 1..Len(rows) |->
          <<rows[k].id,
            IF rows[k].username = None THEN "" ELSE rows[k].username,
            IF rows[k].first_name = None THEN "" ELSE rows[k].first_name,
            rows[k].joined, rows[k].active>>]

\* the UPDATE without its WHERE clause
mark_inactive_all(us, user_id) == {[r EXCEPT !.active = FALSE] : r \in us}

\* UPDATE users SET active = FALSE WHERE id = %s
mark_inactive(us, user_id) ==
    {IF r.id = user_id THEN [r EXCEPT !.active = FALSE] ELSE r : r \in us}

(***************************************************************************)
(* Configuration and the chat platform as the handlers see it.             *)
(***************************************************************************)
\* values of ADMIN_ID: unset (int("0")) or the id of account 2
AdminIds == {0, 2}

\* the accounts that send chat events: a registered one and a new one
Senders == {2, NumPreloaded + 1}

\* the accounts a delivery to which may fail
Flaky == {2, 5}

\* message.text of a /broadcast event, as tokens
Texts == {<<"/broadcast">>, <<"/broadcast", " ">>,
          <<"/broadcast", " ", "hi">>, <<"/broadcast", " ", "/broadcast">>}

\* Python: str.replace("/broadcast", "")
Replace(t) == SelectSeq(t, LAMBDA w : w # "/broadcast")

\* Python: str.strip()
RECURSIVE Strip(_)
Strip(t) ==
    IF t = <<>> THEN t
    ELSE IF Head(t) = " " THEN Strip(Tail(t))
    ELSE IF t[Len(t)] = " " THEN Strip(SubSeq(t, 1, Len(t) - 1))
    ELSE t

\* the text without the strip()
BroadcastText_unstripped(t) == Replace(t)

\* bot.py:323
BroadcastText(t) == Strip(Replace(t))

\* what bot.send_message does: it returns, or raises an exception whose
\* str() is text; reason is why the platform refused
Delivered == [ok |-> TRUE, reason |-> "delivered", text |-> <<>>]

Failures ==
    {[ok |-> FALSE, reason |-> "blocked",
      text |-> <<"b","o","t"," ","w","a","s"," ","b","l","o","c","k","e","d">>],
     [ok |-> FALSE, reason |-> "deactivated",
      text |-> <<"U","S","E","R","_","D","E","A","C","T","I","V","A","T","E","D">>],
     [ok |-> FALSE, reason |-> "timeout",
      text |-> <<"R","e","q","u","e","s","t"," ","t","i","m","e","o","u","t">>]}

Deliveries == {Delivered} \cup Failures

PermanentReasons == {"blocked", "deactivated"}

\* the test without the second substring
IsPermanent_blocked_only(text) ==
    Contains(<<"b","l","o","c","k","e","d">>, Lower(text))

\* bot.py:346: "blocked" in str(e).lower() or "deactivated" in str(e).lower()
IsPermanent(text) ==
    \/ Contains(<<"b","l","o","c","k","e","d">>, Lower(text))
    \/ Contains(<<"d","e","a","c","t","i","v","a","t","e","d">>, Lower(text))

\* bot.py:349
ProgressEvery == 20

(***************************************************************************)
(* The command router.  Every action is one uninterrupted run of a handler *)
(* between two awaits; the registry functions are synchronous, so a        *)
(* handler's registry call and the code around it are one step.            *)
(***************************************************************************)
JobIds == {1, 2}

IdleJob == [pc |-> "idle", from |-> 0, text |-> <<>>, user_ids |-> <<>>,
            i |-> 0, sent |-> 0, failed |-> 0]

Running(job) == job.pc \notin {"idle", "done", "aborted"}

\* dp.start_polling is dispatching events
Polling == proc.bot = "polling" /\ proc.exit = "running"

\* bot.py:276, 292, 320: if ADMIN_ID and message.from_user.id != ADMIN_ID
Rejected(u) == ADMIN_ID # 0 /\ u # ADMIN_ID

Handled(tag, u, out, changed) ==
    last' = [tag |-> tag, from |-> u, out |-> out, changed |-> changed,
             arg |-> NoPayload, doc |-> NoDoc, text |-> <<>>]

\* the same for an event whose message.text the handler reads
HandledText(tag, u, out, changed, txt) ==
    last' = [tag |-> tag, from |-> u, out |-> out, changed |-> changed,
             arg |-> NoPayload, doc |-> NoDoc, text |-> txt]

\* a step that is not a step of job j ends the quiet of every other job
Disturb(j) == quiet' = [k \in JobIds |-> k = j /\ quiet[k]]

\* bot.py:230-253: add_user returns or raises, and the handler goes on to
\* its await
start_replied(u, username, first_name, db) ==
    /\ Polling
    /\ IF db
       THEN /\ users' = add_user(users, u, username, first_name, now)
            /\ late' = [k \in JobIds |->
                          IF Running(jobs[k]) /\ Reach(users, u) # "active"
                          THEN late[k] \cup {u} ELSE late[k]]
            /\ Handled("start", u, <<"menu">>, users' # users)
       ELSE \* psycopg2 raises in add_user: the handler ends there
            /\ UNCHANGED <<users, late>>
            /\ Handled("start", u, <<>>, FALSE)
    /\ Disturb(0)
    /\ UNCHANGED <<status_msg, report, arrivals>>
    /\ UNCHANGED <<ADMIN_ID, now, jobs, log, lastReg, http, proc>>

\* bot.py:227-253, the call of add_user and what follows it as one step
cmd_start(u, username, first_name, db) ==
    /\ start_replied(u, username, first_name, db)
    /\ UNCHANGED thread

\* bot.py:256-270
cmd_help(u) ==
    /\ Polling
    /\ Handled("help", u, <<"help">>, FALSE)
    /\ Disturb(0)
    /\ UNCHANGED <<status_msg, report, arrivals, thread>>
    /\ UNCHANGED <<ADMIN_ID, users, now, jobs, log, late, lastReg, http, proc>>

\* bot.py:273-286
cmd_stats(u, db) ==
    /\ Polling
    /\ IF Rejected(u) THEN Handled("stats", u, <<>>, FALSE)
       ELSE IF db THEN Handled("stats", u, <<"stats">>, FALSE)
       ELSE Handled("stats", u, <<>>, FALSE)
    /\ Disturb(0)
    /\ UNCHANGED <<status_msg, report, arrivals, thread>>
    /\ UNCHANGED <<ADMIN_ID, users, now, jobs, log, late, lastReg, http, proc>>

\* bot.py:289-314
cmd_export(u, db, sent) ==
    /\ Polling
    /\ IF Rejected(u) THEN Handled("export", u, <<>>, FALSE)
       ELSE IF ~db THEN Handled("export", u, <<"error">>, FALSE)
       ELSE IF sent THEN Handled("export", u, <<"csv">>, FALSE)
       ELSE Handled("export", u, <<"csv", "error">>, FALSE)
    /\ Disturb(0)
    /\ UNCHANGED <<status_msg, report, arrivals, thread>>
    /\ UNCHANGED <<ADMIN_ID, users, now, jobs, log, late, lastReg, http, proc>>

\* bot.py:362-374
handle_photo(u) ==
    /\ Polling
    /\ Handled("photo", u, <<"redirect">>, FALSE)
    /\ Disturb(0)
    /\ UNCHANGED <<status_msg, report, arrivals, thread>>
    /\ UNCHANGED <<ADMIN_ID, users, now, jobs, log, late, lastReg, http, proc>>

\* an event no handler is registered for: the dispatcher drops it
unhandled(u) ==
    /\ Polling
    /\ Handled("unrecognized", u, <<>>, FALSE)
    /\ Disturb(0)
    /\ UNCHANGED <<status_msg, report, arrivals, thread>>
    /\ UNCHANGED <<ADMIN_ID, users, now, jobs, log, late, lastReg, http, proc>>

(***************************************************************************)
(* base64 as the standard library computes it.  A base64 text is a         *)
(* sequence of symbols: 0..63 a character of the alphabet (its value),     *)
(* PadSym the character "=", JunkSym an ASCII character outside the        *)
(* alphabet (a comma is one), WideSym a character outside ASCII.  Bytes    *)
(* are 0..255.                                                             *)
(***************************************************************************)
PadSym == 64

JunkSym == 65

WideSym == 66

\* the encoder leaving out the "=" of the last group
RECURSIVE b64encode_unpadded(_)
b64encode_unpadded(b) ==
    IF Len(b) = 0 THEN <<>>
    ELSE IF Len(b) = 1
    THEN <<b[1] \div 4, (b[1] % 4) * 16>>
    ELSE IF Len(b) = 2
    THEN <<b[1] \div 4, (b[1] % 4) * 16 + (b[2] \div 16), (b[2] % 16) * 4>>
    ELSE <<b[1] \div 4, (b[1] % 4) * 16 + (b[2] \div 16),
           (b[2] % 16) * 4 + (b[3] \div 64), b[3] % 64>>
         \o b64encode_unpadded(SubSeq(b, 4, Len(b)))

\* base64.b64encode
RECURSIVE b64encode(_)
b64encode(b) ==
    IF Len(b) = 0 THEN <<>>
    ELSE IF Len(b) = 1
    THEN <<b[1] \div 4, (b[1] % 4) * 16, PadSym, PadSym>>
    ELSE IF Len(b) = 2
    THEN <<b[1] \div 4, (b[1] % 4) * 16 + (b[2] \div 16),
           (b[2] % 16) * 4, PadSym>>
    ELSE <<b[1] \div 4, (b[1] % 4) * 16 + (b[2] \div 16),
           (b[2] % 16) * 4 + (b[3] \div 64), b[3] % 64>>
         \o b64encode(SubSeq(b, 4, Len(b)))

\* binascii.a2b_base64 without strict_mode: the loop over the characters
\* from position k, with its quad_pos, leftchar and pads; characters outside
\* the alphabet are skipped, a complete pad sequence ends the input
RECURSIVE a2b_base64(_, _, _, _, _, _)
a2b_base64(s, k, quad_pos, leftchar, pads, out) ==
    IF k > Len(s)
    THEN [ok |-> quad_pos = 0, bytes |-> out]
    ELSE IF s[k] = PadSym
    THEN IF quad_pos >= 2 /\ quad_pos + pads + 1 >= 4
         THEN [ok |-> TRUE, bytes |-> out]
         ELSE a2b_base64(s, k + 1, quad_pos, leftchar,
                         IF quad_pos >= 2 THEN pads + 1 ELSE pads, out)
    ELSE IF s[k] >= 64
    THEN a2b_base64(s, k + 1, quad_pos, leftchar, pads, out)
    ELSE IF quad_pos = 0
    THEN a2b_base64(s, k + 1, 1, s[k], 0, out)
    ELSE IF quad_pos = 1
    THEN a2b_base64(s, k + 1, 2, s[k] % 16, 0,
                    Append(out, (leftchar * 4 + (s[k] \div 16)) % 256))
    ELSE IF quad_pos = 2
    THEN a2b_base64(s, k + 1, 3, s[k] % 4, 0,
                    Append(out, (leftchar * 16 + (s[k] \div 4)) % 256))
    ELSE a2b_base64(s, k + 1, 0, 0, 0,
                    Append(out, (leftchar * 64 + s[k]) % 256))

\* the decoder treating a skipped character as an error (validate=True)
b64decode_strict(s) ==
    IF \E k \in 1..Len(s) : s[k] >= JunkSym
    THEN [ok |-> FALSE, bytes |-> <<>>]
    ELSE a2b_base64(s, 1, 0, 0, 0, <<>>)

\* base64.b64decode(s) of a str: the ASCII encoding of s, then a2b_base64
b64decode(s) ==
    IF \E k \in 1..Len(s) : s[k] = WideSym
    THEN [ok |-> FALSE, bytes |-> <<>>]
    ELSE a2b_base64(s, 1, 0, 0, 0, <<>>)

(***************************************************************************)
(* handle_webapp_data (bot.py:377-409).                                    *)
(* The payload, message.web_app_data.data, is                              *)
(*   [json, action, image]: json is "invalid" (json.loads raises), "list"  *)
(*   (valid JSON that is no object) or "dict"; action is data.get('action')*)
(*   (None when the key is absent); image is [kind, scheme, segs] with     *)
(*   kind "absent" (no such key), "number" (a value that is no string) or  *)
(*   "str": scheme says the string starts with data:image, segs are the    *)
(*   pieces that follow, split at the commas.                              *)
(***************************************************************************)
ByteVals == {0, 255}

RECURSIVE ByteStrings(_)
ByteStrings(n) ==
    IF n = 0 THEN {<<>>}
    ELSE ByteStrings(n - 1) \cup
         {Append(b, v) : b \in {x \in ByteStrings(n - 1) : Len(x) = n - 1},
                         v \in ByteVals}

\* Python: ",".join(segs)
RECURSIVE Join(_)
Join(segs) ==
    IF Len(segs) = 0 THEN <<>>
    ELSE IF Len(segs) = 1 THEN segs[1]
    ELSE segs[1] \o <<JunkSym>> \o Join(Tail(segs))

Str(scheme, segs) == [kind |-> "str", scheme |-> scheme, segs |-> segs]

\* the image strings a payload may carry for the bytes b
ImagesOf(b) ==
    LET e == b64encode(b)
    IN  {Str(TRUE, <<e>>),             \* what /upscale returns
         Str(FALSE, <<e>>),            \* bare base64
         Str(TRUE, <<>>),              \* a data URI without a comma
         Str(FALSE, <<e, e>>),         \* a comma inside
         Str(FALSE, <<e \o <<WideSym>>>>),
         Str(FALSE, <<SubSeq(e, 1, Len(e) - 1)>>)}

Images == UNION {ImagesOf(b) : b \in ByteStrings(MaxBytes)}

\* the payloads that carry no image string
PlainPayloads ==
    {[json |-> "invalid", action |-> None, image |-> NoImage],
     [json |-> "list", action |-> None, image |-> NoImage],
     [json |-> "dict", action |-> None, image |-> NoImage],
     [json |-> "dict", action |-> "resize", image |-> NoImage],
     [json |-> "dict", action |-> "send_result", image |-> NoImage],
     [json |-> "dict", action |-> "send_result",
      image |-> [kind |-> "number", scheme |-> FALSE, segs |-> <<>>]]}

SendResult(im) == [json |-> "dict", action |-> "send_result", image |-> im]

Payloads == PlainPayloads \cup {SendResult(im) : im \in Images}

\* the payloads of SpecRouter: the image strings of one byte string
RouterPayloads ==
    PlainPayloads \cup {SendResult(im) : im \in ImagesOf(<<255>>)}

\* bot.py:387-393: data.get('image', ''), the prefix cut off, b64decode;
\* ok is FALSE where the code raises
ImageBytes(image) ==
    IF image.kind = "absent" THEN b64decode(<<>>)
    ELSE IF image.kind = "number" THEN [ok |-> FALSE, bytes |-> <<>>]
    ELSE IF image.scheme
    THEN IF Len(image.segs) >= 1 THEN b64decode(image.segs[1])
         ELSE [ok |-> FALSE, bytes |-> <<>>]
    ELSE b64decode(Join(image.segs))

\* bot.py:382-409: what the handler sends for a payload; sent says whether
\* answer_document returned (TRUE) or raised
webapp_out(data, sent) ==
    IF data.json # "dict" THEN <<"error">>
    ELSE IF data.action # "send_result" THEN <<>>
    ELSE IF ~ImageBytes(data.image).ok THEN <<"error">>
    ELSE IF sent THEN <<"document">>
    ELSE <<"document", "error">>

handle_webapp_data(u, data, sent) ==
    /\ Polling
    /\ last' = [tag |-> "webapp", from |-> u, out |-> webapp_out(data, sent),
                changed |-> FALSE, arg |-> data,
                doc |-> IF "document" \in Range(webapp_out(data, sent))
                        THEN [attached |-> TRUE,
                              bytes |-> ImageBytes(data.image).bytes]
                        ELSE NoDoc,
                text |-> <<>>]
    /\ Disturb(0)
    /\ UNCHANGED <<status_msg, report, arrivals, thread>>
    /\ UNCHANGED <<ADMIN_ID, users, now, jobs, log, late, lastReg, http, proc>>

(***************************************************************************)
(* cmd_broadcast (bot.py:317-359).  A job is the frame of one running      *)
(* handler: pc is the await it is suspended at, i the loop index.          *)
(***************************************************************************)
\* bot.py:338 and 350: the text "... k/n", sent by message.answer
\* (op "answer": a new message) or by status_msg.edit_text (op "edit")
ProgressText(op, k, n) ==
    [op |-> op, kind |-> "progress", attempted |-> k, total |-> n,
     sent |-> 0, failed |-> 0]

\* bot.py:354-359: the summary, written by status_msg.edit_text
SummaryText(sent, failed) ==
    [op |-> "edit", kind |-> "summary", attempted |-> 0, total |-> 0,
     sent |-> sent, failed |-> failed]

\* the test taken on the loop index before it is advanced
ProgressDue_at_index(i) == i % ProgressEvery = 0

\* bot.py:349: if (i + 1) % 20 == 0
ProgressDue(i) == (i + 1) % ProgressEvery = 0

\* the loop reading the table again at every iteration instead of its list
Recipient_requery(job, us) ==
    LET live == get_all_user_ids(us, "asc")
    IN  IF job.i + 1 <= Len(live) THEN live[job.i + 1]
        ELSE job.user_ids[job.i + 1]

\* bot.py:340: for i, user_id in enumerate(user_ids)
Recipient(job, us) == job.user_ids[job.i + 1]

\* bot.py:317-338: the guard, the text, the list of recipients and the
\* status message, up to the first await
cmd_broadcast(j, u, txt, db, order) ==
    /\ Polling
    /\ ~Running(jobs[j])
    /\ IF Rejected(u)
       THEN /\ HandledText("broadcast", u, <<>>, FALSE, txt)
            /\ Disturb(0)
            /\ UNCHANGED <<jobs, log, late, status_msg>>
       ELSE IF BroadcastText(txt) = <<>>
       THEN /\ HandledText("broadcast", u, <<"usage">>, FALSE, txt)
            /\ Disturb(0)
            /\ UNCHANGED <<jobs, log, late, status_msg>>
       ELSE IF ~db
       THEN \* psycopg2 raises in get_all_user_ids
            /\ HandledText("broadcast", u, <<>>, FALSE, txt)
            /\ Disturb(0)
            /\ UNCHANGED <<jobs, log, late, status_msg>>
       ELSE /\ jobs' = [jobs EXCEPT ![j] =
                          [pc |-> "status", from |-> u,
                           text |-> BroadcastText(txt),
                           user_ids |-> get_all_user_ids(users, order),
                           i |-> 0, sent |-> 0, failed |-> 0]]
            /\ log' = [log EXCEPT ![j] = <<>>]
            /\ late' = [late EXCEPT ![j] = {}]
            /\ quiet' = [k \in JobIds |-> k = j]
            /\ status_msg' = [status_msg EXCEPT ![j] =
                  <<ProgressText("answer", 0,
                                 Len(get_all_user_ids(users, order)))>>]
            /\ HandledText("broadcast", u, <<"status">>, FALSE, txt)
    /\ UNCHANGED <<report, arrivals, thread>>
    /\ UNCHANGED <<ADMIN_ID, users, now, lastReg, http, proc>>

\* bot.py:338: await message.answer(...) returns or raises
status_answered(j, ok) ==
    /\ Polling
    /\ jobs[j].pc = "status"
    /\ jobs' = [jobs EXCEPT ![j].pc =
                  IF ~ok THEN "aborted"
                  ELSE IF Len(jobs[j].user_ids) = 0 THEN "final" ELSE "send"]
    /\ Handled("broadcast", jobs[j].from,
               IF ~ok THEN <<>>
               ELSE IF Len(jobs[j].user_ids) = 0 THEN <<"summary">>
               ELSE <<"delivery">>, FALSE)
    /\ status_msg' = IF ok /\ Len(jobs[j].user_ids) = 0
                     THEN [status_msg EXCEPT ![j] = Append(@,
                             SummaryText(jobs[j].sent, jobs[j].failed))]
                     ELSE status_msg
    /\ Disturb(j)
    /\ UNCHANGED <<report, arrivals, thread>>
    /\ UNCHANGED <<ADMIN_ID, users, now, log, late, lastReg, http, proc>>

\* bot.py:341-350: await bot.send_message(...) returns or raises; the
\* counters, mark_inactive and the test of the progress cadence
delivery_done(j, d, db) ==
    /\ Polling
    /\ jobs[j].pc = "send"
    /\ LET job == jobs[j]
           user_id == Recipient(job, users)
           deact == ~d.ok /\ IsPermanent(d.text)
           raised == deact /\ ~db      \* psycopg2 raises in mark_inactive
           edit == ProgressDue(job.i)
       IN  /\ users' = IF deact /\ db THEN mark_inactive(users, user_id)
                       ELSE users
           /\ jobs' = [jobs EXCEPT ![j] =
                         [job EXCEPT
                            !.sent = IF d.ok THEN @ + 1 ELSE @,
                            !.failed = IF d.ok THEN @ ELSE @ + 1,
                            !.pc = IF raised THEN "aborted"
                                   ELSE IF edit THEN "progress" ELSE "sleep"]]
           /\ log' = [log EXCEPT ![j] = Append(@,
                        [id |-> user_id, reason |-> d.reason, deact |-> deact,
                         before |-> Reach(users, user_id),
                         after |-> Reach(users', user_id),
                         wasLate |-> user_id \in late[j]])]
           /\ status_msg' = IF ~raised /\ edit
                            THEN [status_msg EXCEPT ![j] = Append(@,
                                    ProgressText("edit", job.i + 1,
                                                 Len(job.user_ids)))]
                            ELSE status_msg
           /\ Handled("broadcast", job.from,
                      IF ~raised /\ edit THEN <<"progress">> ELSE <<>>,
                      users' # users)
    /\ Disturb(j)
    /\ UNCHANGED <<report, arrivals, thread>>
    /\ UNCHANGED <<ADMIN_ID, now, late, lastReg, http, proc>>

\* the loop going on to the next id right after the edit, as a `continue`
\* placed after it would
progress_edited_resumes(j, ok) ==
    /\ Polling
    /\ jobs[j].pc = "progress"
    /\ LET more == jobs[j].i + 1 < Len(jobs[j].user_ids)
       IN  jobs' = [jobs EXCEPT
                      ![j].pc = IF ~ok THEN "aborted"
                                ELSE IF more THEN "send" ELSE "sleep",
                      ![j].i = IF ok /\ more THEN @ + 1 ELSE @]
    /\ Handled("broadcast", jobs[j].from, <<>>, FALSE)
    /\ UNCHANGED status_msg
    /\ Disturb(j)
    /\ UNCHANGED <<report, arrivals, thread>>
    /\ UNCHANGED <<ADMIN_ID, users, now, log, late, lastReg, http, proc>>

\* bot.py:350: await status_msg.edit_text(...) returns or raises
progress_edited(j, ok) ==
    /\ Polling
    /\ jobs[j].pc = "progress"
    /\ jobs' = [jobs EXCEPT ![j].pc = IF ok THEN "sleep" ELSE "aborted"]
    /\ Handled("broadcast", jobs[j].from, <<>>, FALSE)
    /\ UNCHANGED status_msg
    /\ Disturb(j)
    /\ UNCHANGED <<report, arrivals, thread>>
    /\ UNCHANGED <<ADMIN_ID, users, now, log, late, lastReg, http, proc>>

\* bot.py:352: await asyncio.sleep(0.05) returns; the loop goes on or ends
sleep_done(j) ==
    /\ Polling
    /\ jobs[j].pc = "sleep"
    /\ LET more == jobs[j].i + 1 < Len(jobs[j].user_ids)
       IN  /\ jobs' = [jobs EXCEPT ![j].pc = IF more THEN "send" ELSE "final",
                                   ![j].i = IF more THEN @ + 1 ELSE @]
           /\ status_msg' = IF more THEN status_msg
                            ELSE [status_msg EXCEPT ![j] = Append(@,
                                    SummaryText(jobs[j].sent, jobs[j].failed))]
           /\ Handled("broadcast", jobs[j].from,
                      IF more THEN <<"delivery">> ELSE <<"summary">>, FALSE)
    /\ Disturb(j)
    /\ UNCHANGED <<report, arrivals, thread>>
    /\ UNCHANGED <<ADMIN_ID, users, now, log, late, lastReg, http, proc>>

\* bot.py:354-359: await status_msg.edit_text(...) returns or raises
final_edited(j, ok) ==
    /\ Polling
    /\ jobs[j].pc = "final"
    /\ jobs' = [jobs EXCEPT ![j].pc = IF ok THEN "done" ELSE "aborted"]
    /\ Handled("broadcast", jobs[j].from, <<>>, FALSE)
    /\ UNCHANGED status_msg
    /\ Disturb(j)
    /\ UNCHANGED <<report, arrivals, thread>>
    /\ UNCHANGED <<ADMIN_ID, users, now, log, late, lastReg, http, proc>>

(***************************************************************************)
(* The HTTP gateway (bot.py:142-222).                                      *)
(*   request  == [method, path, multipart]; multipart.ok is FALSE where    *)
(*               reading the body raises, parts are its fields in order    *)
(*   provider == what the upscaling provider does when called              *)
(*   response == [status, body, success, output_url, image_base64, error,  *)
(*                headers]: headers are the headers the code sets          *)
(***************************************************************************)
NoMultipart == [ok |-> TRUE, parts |-> <<>>]

NoRequest == [method |-> "none", path |-> "", multipart |-> NoMultipart]

NoResponse == [status |-> 0, body |-> "none", success |-> "absent",
               output_url |-> FALSE, image_base64 |-> NoImage,
               error |-> FALSE, headers |-> {}]

\* the provider was not called
Unused == [post |-> "unused", json |-> "none", has_url |-> FALSE,
           has_err |-> FALSE, fetch |-> "unused", resource |-> <<>>]

PartNames == {"image", "file"}

Parts == {[name |-> n, data |-> b] : n \in PartNames, b \in {<<>>, <<255>>}}

PartLists == {<<>>} \cup {<<x>> : x \in Parts}
             \cup {<<x, y>> : x \in Parts, y \in Parts}

UpscaleRequests ==
    {[method |-> "POST", path |-> "/upscale",
      multipart |-> [ok |-> TRUE, parts |-> ps]] : ps \in PartLists}
    \cup {[method |-> "POST", path |-> "/upscale",
           multipart |-> [ok |-> FALSE, parts |-> <<>>]]}

OtherRequests ==
    {[method |-> "GET", path |-> "/health", multipart |-> NoMultipart],
     [method |-> "OPTIONS", path |-> "/upscale", multipart |-> NoMultipart],
     [method |-> "OPTIONS", path |-> "/upscale",
      multipart |-> [ok |-> TRUE,
                     parts |-> <<[name |-> "image", data |-> <<255>>]>>]]}

Requests == UpscaleRequests \cup OtherRequests

\* session.post raises; resp.json() raises; the body is JSON null, a list,
\* or an object with or without output_url and err; session.get / read()
\* raises or returns the resource
Providers ==
    {[post |-> "raise", json |-> "none", has_url |-> FALSE,
      has_err |-> FALSE, fetch |-> "unused", resource |-> <<>>]}
    \cup {[post |-> "ok", json |-> j, has_url |-> FALSE, has_err |-> FALSE,
           fetch |-> "unused", resource |-> <<>>] :
            j \in {"raise", "null", "list"}}
    \cup {[post |-> "ok", json |-> "dict", has_url |-> FALSE, has_err |-> e,
           fetch |-> "unused", resource |-> <<>>] : e \in BOOLEAN}
    \cup {[post |-> "ok", json |-> "dict", has_url |-> TRUE, has_err |-> e,
           fetch |-> "raise", resource |-> <<>>] : e \in BOOLEAN}
    \cup {[post |-> "ok", json |-> "dict", has_url |-> TRUE, has_err |-> e,
           fetch |-> "ok", resource |-> b] :
            e \in BOOLEAN, b \in ByteStrings(MaxBytes)}

NoData == [present |-> FALSE, bytes |-> <<>>]

\* keeping the data of any part, whatever its name
RECURSIVE ImageData_any_part(_)
ImageData_any_part(parts) ==
    IF Len(parts) = 0 THEN NoData
    ELSE [present |-> TRUE, bytes |-> parts[Len(parts)].data]

\* bot.py:149-154: image_data is None, then the data of every part named
\* image in turn
RECURSIVE ImageData(_)
ImageData(parts) ==
    IF Len(parts) = 0 THEN NoData
    ELSE IF parts[Len(parts)].name = "image"
    THEN [present |-> TRUE, bytes |-> parts[Len(parts)].data]
    ELSE ImageData(SubSeq(parts, 1, Len(parts) - 1))

\* bot.py:193 and 157: {'error': ...} with a status
ErrorResponse(status) ==
    [NoResponse EXCEPT !.status = status, !.body = "json", !.error = TRUE]

\* the relay of the provider's error without status=500
ProviderFailure_200(prov) ==
    [NoResponse EXCEPT !.status = 200, !.body = "json", !.success = "false",
                       !.error = TRUE]

\* bot.py:186-189: {'success': False, 'error': ...}, status=500
ProviderFailure(prov) ==
    [NoResponse EXCEPT !.status = 500, !.body = "json", !.success = "false",
                       !.error = TRUE]

\* bot.py:178-184: the resource as a data URI
UpscaleSuccess(prov) ==
    [NoResponse EXCEPT !.status = 200, !.body = "json", !.success = "true",
                       !.output_url = TRUE,
                       !.image_base64 = Str(TRUE, <<b64encode(prov.resource)>>)]

\* bot.py:142-193: the response and the outbound calls made for it
handle_upscale(req, prov) ==
    IF ~req.multipart.ok
    THEN [resp |-> ErrorResponse(500), calls |-> <<>>]
    ELSE IF ~ImageData(req.multipart.parts).present
            \/ ImageData(req.multipart.parts).bytes = <<>>
    THEN [resp |-> ErrorResponse(400), calls |-> <<>>]
    ELSE IF prov.post = "raise" \/ prov.json \in {"raise", "null", "list"}
    THEN [resp |-> ErrorResponse(500), calls |-> <<"post">>]
    ELSE IF ~prov.has_url
    THEN [resp |-> ProviderFailure(prov), calls |-> <<"post">>]
    ELSE IF prov.fetch = "raise"
    THEN [resp |-> ErrorResponse(500), calls |-> <<"post", "get">>]
    ELSE [resp |-> UpscaleSuccess(prov), calls |-> <<"post", "get">>]

\* bot.py:196-198
handle_health(req) ==
    [resp |-> [NoResponse EXCEPT !.status = 200, !.body = "json"],
     calls |-> <<>>]

\* bot.py:204-208 and 219-221
CorsHeaders ==
    {<<"Access-Control-Allow-Origin", "*">>,
     <<"Access-Control-Allow-Methods", "POST, GET, OPTIONS">>,
     <<"Access-Control-Allow-Headers", "Content-Type">>}

\* bot.py:201-209
handle_cors_preflight(req) ==
    [resp |-> [NoResponse EXCEPT !.status = 200, !.body = "empty",
                                 !.headers = CorsHeaders],
     calls |-> <<>>]

\* the result r of the handler named by
Ran(by, r) == [resp |-> r.resp, calls |-> r.calls, by |-> by]

\* bot.py:421-423: the routes of the application
Route(req, prov) ==
    IF req.method = "POST"
    THEN Ran("handle_upscale", handle_upscale(req, prov))
    ELSE IF req.method = "GET"
    THEN Ran("handle_health", handle_health(req))
    ELSE Ran("handle_cors_preflight", handle_cors_preflight(req))

\* the middleware calling the handler and returning its response as it is
cors_middleware_bare(req, prov) == Route(req, prov)

\* bot.py:212-222
cors_middleware(req, prov) ==
    IF req.method = "OPTIONS"
    THEN Ran("handle_cors_preflight", handle_cors_preflight(req))
    ELSE [Route(req, prov) EXCEPT !.resp.headers = @ \cup CorsHeaders]

\* the listener serves one request
serve(req, prov) ==
    /\ proc.listener = "up" /\ proc.exit = "running"
    /\ LET r == cors_middleware(req, prov)
       IN  http' = [req |-> req,
                    prov |-> IF r.calls = <<>> THEN Unused ELSE prov,
                    resp |-> r.resp, calls |-> r.calls, by |-> r.by]
    /\ UNCHANGED <<status_msg, report, arrivals, thread>>
    /\ UNCHANGED <<ADMIN_ID, users, now, jobs, log, quiet, late, last,
                   lastReg, proc>>

(***************************************************************************)
(* main(), run_bot() and run_server() (bot.py:412-445).                    *)
(*   proc == [main, bot, server, listener, exit]                           *)
(***************************************************************************)
\* python starts main()
Booting == [main |-> "init_db", bot |-> "new", server |-> "new",
            listener |-> "down", exit |-> "running"]

\* bot.py:434: init_db() returns or raises
init_db(ok) ==
    /\ proc.main = "init_db"
    /\ proc' = IF ok
               THEN [proc EXCEPT !.main = "gather", !.bot = "webhook",
                                 !.server = "setup"]
               ELSE [proc EXCEPT !.main = "exited", !.exit = "nonzero"]
    /\ UNCHANGED <<status_msg, report, arrivals, thread>>
    /\ UNCHANGED <<ADMIN_ID, users, now, jobs, log, quiet, late, last,
                   lastReg, http>>

\* bot.py:414: await bot.delete_webhook(...) returns or raises
delete_webhook_done(ok) ==
    /\ proc.main = "gather" /\ proc.bot = "webhook"
    /\ proc' = [proc EXCEPT !.bot = IF ok THEN "polling" ELSE "raised"]
    /\ UNCHANGED <<status_msg, report, arrivals, thread>>
    /\ UNCHANGED <<ADMIN_ID, users, now, jobs, log, quiet, late, last,
                   lastReg, http>>

\* bot.py:415: await dp.start_polling(bot) returns or raises
start_polling_done(ok) ==
    /\ proc.main = "gather" /\ proc.bot = "polling"
    /\ proc' = [proc EXCEPT !.bot = IF ok THEN "returned" ELSE "raised"]
    /\ UNCHANGED <<status_msg, report, arrivals, thread>>
    /\ UNCHANGED <<ADMIN_ID, users, now, jobs, log, quiet, late, last,
                   lastReg, http>>

\* bot.py:420-429: runner.setup() and site.start() return, and run_server
\* returns with the site listening, or one of them raises
run_server_done(ok) ==
    /\ proc.main = "gather" /\ proc.server = "setup"
    /\ proc' = IF ok
               THEN [proc EXCEPT !.server = "returned", !.listener = "up"]
               ELSE [proc EXCEPT !.server = "raised"]
    /\ UNCHANGED <<status_msg, report, arrivals, thread>>
    /\ UNCHANGED <<ADMIN_ID, users, now, jobs, log, quiet, late, last,
                   lastReg, http>>

\* bot.py:438-445: gather completes when both tasks have returned, or
\* raises as soon as one has raised; asyncio.run then cancels what is left,
\* closes the loop, and the interpreter exits
gather_done ==
    /\ proc.main = "gather"
    /\ \/ "raised" \in {proc.bot, proc.server}
       \/ proc.bot = "returned" /\ proc.server = "returned"
    /\ proc' = [main |-> "exited",
                bot |-> IF proc.bot \in {"webhook", "polling"}
                        THEN "cancelled" ELSE proc.bot,
                server |-> IF proc.server = "setup"
                           THEN "cancelled" ELSE proc.server,
                listener |-> "down",
                exit |-> IF "raised" \in {proc.bot, proc.server}
                         THEN "nonzero" ELSE "zero"]
    /\ UNCHANGED <<status_msg, report, arrivals, thread>>
    /\ UNCHANGED <<ADMIN_ID, users, now, jobs, log, quiet, late, last,
                   lastReg, http>>

(***************************************************************************)
(* Initial states.                                                         *)
(***************************************************************************)
\* the table as earlier runs of the bot left it: CREATE TABLE IF NOT EXISTS
\* keeps the rows
Preloaded(n) == {Row(k, "u0", "n0", 0, TRUE) : k \in 1..n}

NoEvent == [tag |-> "none", from |-> 0, out |-> <<>>, changed |-> FALSE,
            arg |-> NoPayload, doc |-> NoDoc, text |-> <<>>]

NoCall == [op |-> "none", id |-> 0, username |-> None, first_name |-> None,
           prev |-> "absent"]

NoExchange == [req |-> NoRequest, prov |-> Unused, resp |-> NoResponse,
               calls |-> <<>>, by |-> "none"]

\* no registry query has been made
NoReport == [op |-> "none", total |-> 0, new_24h |-> 0, active |-> 0,
             rows |-> <<>>, csv |-> <<>>]

\* the thread runs the event loop: no registry function is on its stack
OnLoop == [in |-> "loop", from |-> 0]

\* both tasks of main() are up
Serving == [main |-> "gather", bot |-> "polling", server |-> "returned",
            listener |-> "up", exit |-> "running"]

InitWith(rows) ==
    /\ ADMIN_ID \in AdminIds
    /\ users = rows
    /\ now = 0
    /\ jobs = [j \in JobIds |-> IdleJob]
    /\ log = [j \in JobIds |-> <<>>]
    /\ quiet = [j \in JobIds |-> TRUE]
    /\ late = [j \in JobIds |-> {}]
    /\ last = NoEvent
    /\ lastReg = NoCall
    /\ http = NoExchange
    /\ proc = Serving
    /\ status_msg = [j \in JobIds |-> <<>>]
    /\ report = NoReport
    /\ arrivals = <<>>
    /\ thread = OnLoop

\* the deliveries the platform is let to answer job j's pending send with
CanBe(j, d) ==
    /\ jobs[j].pc = "send"
    /\ d.ok \/ Recipient(jobs[j], users) \in Flaky

(***************************************************************************)
(* Spec: one broadcast job at a time, with /start events in between, on    *)
(* the table of a first deployment (empty) or of a later one.              *)
(***************************************************************************)
Init == \E rows \in {{}, Preloaded(NumPreloaded)} : InitWith(rows)

Next ==
    \/ \E u \in Senders, db \in BOOLEAN : cmd_start(u, "u0", "n0", db)
    \/ \E u \in Senders, txt \in {<<"/broadcast">>, <<"/broadcast", " ", "hi">>},
          db \in BOOLEAN, order \in RowOrders :
          cmd_broadcast(1, u, txt, db, order)
    \/ \E ok \in BOOLEAN : status_answered(1, ok)
    \/ \E d \in Deliveries, db \in BOOLEAN :
          /\ CanBe(1, d)
          /\ delivery_done(1, d, db)
    \/ \E ok \in BOOLEAN : progress_edited(1, ok)
    \/ sleep_done(1)
    \/ \E ok \in BOOLEAN : final_edited(1, ok)

Spec == Init /\ [][Next]_vars

(***************************************************************************)
(* SpecRouter: every kind of event over a small table.  Account 1 may have *)
(* blocked the bot.  The table holds fewer than ProgressEvery rows, so no  *)
(* job of SpecRouter reaches the progress edit; Spec covers it.            *)
(***************************************************************************)
RouterSenders == {2, NumRouterRows + 1}

InitRouter == InitWith(Preloaded(NumRouterRows))

NextRouter ==
    \/ \E u \in RouterSenders, db \in BOOLEAN : cmd_start(u, "u1", "n1", db)
    \/ \E u \in RouterSenders : cmd_help(u)
    \/ \E u \in RouterSenders, db \in BOOLEAN : cmd_stats(u, db)
    \/ \E u \in RouterSenders, db \in BOOLEAN, sent \in BOOLEAN :
          cmd_export(u, db, sent)
    \/ \E u \in RouterSenders : handle_photo(u)
    \/ \E u \in RouterSenders : unhandled(u)
    \/ \E u \in RouterSenders, data \in RouterPayloads, sent \in BOOLEAN :
          handle_webapp_data(u, data, sent)
    \/ \E u \in RouterSenders, txt \in Texts, db \in BOOLEAN,
          order \in RowOrders :
          cmd_broadcast(1, u, txt, db, order)
    \/ \E ok \in BOOLEAN : status_answered(1, ok)
    \/ \E d \in Deliveries, db \in BOOLEAN :
          /\ jobs[1].pc = "send"
          /\ d.ok \/ (Recipient(jobs[1], users) = 1 /\ d.reason = "blocked")
          /\ delivery_done(1, d, db)
    \/ sleep_done(1)
    \/ \E ok \in BOOLEAN : final_edited(1, ok)

SpecRouter == InitRouter /\ [][NextRouter]_vars

(***************************************************************************)
(* SpecRegistry: add_user and mark_inactive called in any order on a       *)
(* table that init_db has just created, while the clock advances.          *)
(***************************************************************************)
RegIds == 1..NumRegIds

\* message.from_user.username is None for an account without a handle
Usernames == {None, "a"}

FirstNames == {"x", "y"}

call_add_user(user_id, username, first_name) ==
    /\ users' = add_user(users, user_id, username, first_name, now)
    /\ lastReg' = [op |-> "add_user", id |-> user_id, username |-> username,
                   first_name |-> first_name, prev |-> Reach(users, user_id)]
    /\ UNCHANGED <<status_msg, report, arrivals, thread>>
    /\ UNCHANGED <<ADMIN_ID, now, jobs, log, quiet, late, last, http, proc>>

call_mark_inactive(user_id) ==
    /\ users' = mark_inactive(users, user_id)
    /\ lastReg' = [op |-> "mark_inactive", id |-> user_id, username |-> None,
                   first_name |-> None, prev |-> Reach(users, user_id)]
    /\ UNCHANGED <<status_msg, report, arrivals, thread>>
    /\ UNCHANGED <<ADMIN_ID, now, jobs, log, quiet, late, last, http, proc>>

\* time passes
tick ==
    /\ now < MaxNow
    /\ now' = now + 1
    /\ UNCHANGED <<status_msg, report, arrivals, thread>>
    /\ UNCHANGED <<ADMIN_ID, users, jobs, log, quiet, late, last, lastReg,
                   http, proc>>

InitRegistry == InitWith({})

NextRegistry ==
    \/ \E user_id \in RegIds, username \in Usernames,
          first_name \in FirstNames :
          call_add_user(user_id, username, first_name)
    \/ \E user_id \in RegIds : call_mark_inactive(user_id)
    \/ tick

SpecRegistry == InitRegistry /\ [][NextRegistry]_vars

(***************************************************************************)
(* SpecTwoJobs: the operator, account 2, sends /broadcast while an earlier *)
(* /broadcast is still running (the dispatcher handles each update in a    *)
(* task of its own).  Account 1 may have blocked the bot and may send      *)
(* /start.                                                                 *)
(***************************************************************************)
\* accounts in the table at the start of SpecTwoJobs (ids 1..NumJobRows)
NumJobRows == 3

InitTwoJobs ==
    /\ InitWith(Preloaded(NumJobRows))
    /\ ADMIN_ID = 2

NextTwoJobs ==
    \/ cmd_start(1, "u1", "n1", TRUE)
    \/ \E j \in JobIds, order \in RowOrders :
          cmd_broadcast(j, 2, <<"/broadcast", " ", "hi">>, TRUE, order)
    \/ \E j \in JobIds : status_answered(j, TRUE)
    \/ \E j \in JobIds, d \in Deliveries :
          /\ jobs[j].pc = "send"
          /\ d.ok \/ (Recipient(jobs[j], users) = 1 /\ d.reason = "blocked")
          /\ delivery_done(j, d, TRUE)
    \/ \E j \in JobIds : sleep_done(j)
    \/ \E j \in JobIds, ok \in BOOLEAN : final_edited(j, ok)

SpecTwoJobs == InitTwoJobs /\ [][NextTwoJobs]_vars

(***************************************************************************)
(* SpecLoop: the registry call of cmd_start with its duration.  add_user   *)
(* is a plain function: psycopg2 connects, executes and commits on the     *)
(* thread that runs the event loop, and until it returns that thread runs  *)
(* no other coroutine.  An await (send_message, edit_text, sleep) gives    *)
(* the thread back to the loop.                                            *)
(***************************************************************************)
\* the step A of a coroutine the loop resumes: the thread is the loop's
Scheduled(A) == thread = OnLoop /\ A

\* bot.py:230: cmd_start calls add_user, which waits for the database
start_calls_add_user(u) ==
    /\ Polling
    /\ thread = OnLoop
    /\ thread' = [in |-> "add_user", from |-> u]
    /\ UNCHANGED <<ADMIN_ID, users, now, jobs, log, quiet, late, last,
                   lastReg, http, proc, status_msg, report, arrivals>>

\* the database answers, or the connection fails
add_user_returns(db) ==
    /\ thread.in = "add_user"
    /\ start_replied(thread.from, "u1", "n1", db)
    /\ thread' = OnLoop

\* the handlers of other events and the gateway's requests
OtherOperations ==
    \/ Scheduled(\E u \in RouterSenders : cmd_help(u))
    \/ Scheduled(\E u \in RouterSenders : handle_photo(u))
    \/ Scheduled(\E req \in OtherRequests : serve(req, Unused))

\* the steps of the broadcast job
JobOperations ==
    \/ Scheduled(\E order \in RowOrders :
          cmd_broadcast(1, 2, <<"/broadcast", " ", "hi">>, TRUE, order))
    \/ Scheduled(status_answered(1, TRUE))
    \/ Scheduled(\E d \in Deliveries :
          /\ jobs[1].pc = "send"
          /\ d.ok \/ (Recipient(jobs[1], users) = 1 /\ d.reason = "blocked")
          /\ delivery_done(1, d, TRUE))
    \/ Scheduled(sleep_done(1))
    \/ Scheduled(final_edited(1, TRUE))

InitLoop ==
    /\ InitWith(Preloaded(NumRouterRows))
    /\ ADMIN_ID = 2

NextLoop ==
    \/ \E u \in RouterSenders : start_calls_add_user(u)
    \/ \E db \in BOOLEAN : add_user_returns(db)
    \/ OtherOperations
    \/ JobOperations

SpecLoop == InitLoop /\ [][NextLoop]_vars

(***************************************************************************)
(* SpecReports: get_stats and export_users called on a table that add_user *)
(* and mark_inactive fill while the clock, in hours, advances.  Two        *)
(* transactions never start in the same microsecond, so a new row's joined *)
(* is later than every joined in the table: the clock has moved on since   *)
(* the last insert.                                                        *)
(***************************************************************************)
\* ids used by the calls of SpecReports (1..NumReportIds)
NumReportIds == 3

ReportIds == 1..NumReportIds

\* the hours at which the calls are made
Hours == {0, 1, 24, 25}

\* message.from_user.username of the account
HandleOf(user_id) == IF user_id % 2 = 1 THEN None ELSE "a"

reg_add_user(user_id) ==
    /\ Reach(users, user_id) = "absent" => \A r \in users : r.joined < now
    /\ users' = add_user(users, user_id, HandleOf(user_id), "n0", now)
    /\ arrivals' = IF Reach(users, user_id) = "absent"
                   THEN Append(arrivals, user_id) ELSE arrivals
    /\ report' = NoReport
    /\ UNCHANGED <<ADMIN_ID, now, jobs, log, quiet, late, last, lastReg,
                   http, proc, status_msg, thread>>

reg_mark_inactive(user_id) ==
    /\ users' = mark_inactive(users, user_id)
    /\ report' = NoReport
    /\ UNCHANGED <<ADMIN_ID, now, jobs, log, quiet, late, last, lastReg,
                   http, proc, status_msg, arrivals, thread>>

hours_pass(t) ==
    /\ t > now
    /\ now' = t
    /\ report' = NoReport
    /\ UNCHANGED <<ADMIN_ID, users, jobs, log, quiet, late, last, lastReg,
                   http, proc, status_msg, arrivals, thread>>

call_get_stats ==
    /\ report' = [NoReport EXCEPT !.op = "stats",
                                  !.total = get_stats(users, now).total,
                                  !.new_24h = get_stats(users, now).new_24h,
                                  !.active = get_stats(users, now).active]
    /\ UNCHANGED <<ADMIN_ID, users, now, jobs, log, quiet, late, last,
                   lastReg, http, proc, status_msg, arrivals, thread>>

\* bot.py:296-310: export_users() and the lines cmd_export writes from it
call_export_users(order) ==
    /\ report' = [NoReport EXCEPT !.op = "export",
                                  !.rows = export_users(users, order),
                                  !.csv = csv_lines(export_users(users, order))]
    /\ UNCHANGED <<ADMIN_ID, users, now, jobs, log, quiet, late, last,
                   lastReg, http, proc, status_msg, arrivals, thread>>

InitReports == InitWith({})

NextReports ==
    \/ \E user_id \in ReportIds : reg_add_user(user_id)
    \/ \E user_id \in ReportIds : reg_mark_inactive(user_id)
    \/ \E t \in Hours : hours_pass(t)
    \/ call_get_stats
    \/ \E order \in RowOrders : call_export_users(order)

SpecReports == InitReports /\ [][NextReports]_vars

(***************************************************************************)
(* SpecRoundTrip: the mini-app posts an image to /upscale and sends the    *)
(* image_base64 of the 200 response back to the bot as the image of a      *)
(* send_result payload.                                                    *)
(***************************************************************************)
\* longest resource the provider's output reference points at
MaxResource == 3

ResourceVals == {0, 165, 255}

RECURSIVE Resources(_)
Resources(n) ==
    IF n = 0 THEN {<<>>}
    ELSE Resources(n - 1) \cup
         {Append(b, v) : b \in {x \in Resources(n - 1) : Len(x) = n - 1},
                         v \in ResourceVals}

\* the request of the mini-app: one field named image
ImagePost ==
    [method |-> "POST", path |-> "/upscale",
     multipart |-> [ok |-> TRUE,
                    parts |-> <<[name |-> "image", data |-> <<255>>]>>]]

\* the provider answers with an output reference, or with an error
RoundTripProviders ==
    {[post |-> "ok", json |-> "dict", has_url |-> TRUE, has_err |-> FALSE,
      fetch |-> "ok", resource |-> b] : b \in Resources(MaxResource)}
    \cup {[post |-> "ok", json |-> "dict", has_url |-> FALSE,
           has_err |-> TRUE, fetch |-> "unused", resource |-> <<>>]}

\* Telegram.WebApp.sendData with the field of the response received last
relay(u, sent) ==
    /\ http.resp.status = 200
    /\ handle_webapp_data(u, SendResult(http.resp.image_base64), sent)

InitRoundTrip ==
    /\ InitWith({})
    /\ ADMIN_ID = 0

NextRoundTrip ==
    \/ \E prov \in RoundTripProviders : serve(ImagePost, prov)
    \/ \E sent \in BOOLEAN : relay(2, sent)

SpecRoundTrip == InitRoundTrip /\ [][NextRoundTrip]_vars

(***************************************************************************)
(* SpecGateway: the process from its start, and the requests the listener  *)
(* serves while it is up.                                                  *)
(***************************************************************************)
InitGateway ==
    /\ ADMIN_ID = 0
    /\ users = {}
    /\ now = 0
    /\ jobs = [j \in JobIds |-> IdleJob]
    /\ log = [j \in JobIds |-> <<>>]
    /\ quiet = [j \in JobIds |-> TRUE]
    /\ late = [j \in JobIds |-> {}]
    /\ last = NoEvent
    /\ lastReg = NoCall
    /\ http = NoExchange
    /\ proc = Booting
    /\ status_msg = [j \in JobIds |-> <<>>]
    /\ report = NoReport
    /\ arrivals = <<>>
    /\ thread = OnLoop

NextGateway ==
    \/ \E ok \in BOOLEAN : init_db(ok)
    \/ \E ok \in BOOLEAN : delete_webhook_done(ok)
    \/ \E ok \in BOOLEAN : start_polling_done(ok)
    \/ \E ok \in BOOLEAN : run_server_done(ok)
    \/ gather_done
    \/ \E req \in Requests, prov \in Providers : serve(req, prov)

SpecGateway == InitGateway /\ [][NextGateway]_vars

(***************************************************************************)
(* Properties of the broadcast loop, checked under Spec.                   *)
(***************************************************************************)
Entries(j) == {log[j][k] : k \in 1..Len(log[j])}

\* the accounts job j's deliveries found blocked
BlockedBy(j) == {e.id : e \in {x \in Entries(j) : x.reason = "blocked"}}

OnlyBlockedFailures(j) ==
    \A e \in Entries(j) : e.reason \in {"delivered", "blocked"}

\* C2: a job that ran undisturbed over N accounts, with deliveries to the
\* set B failing as blocked and all others succeeding, ends with
\* sent = N - |B|, failed = |B|, B inactive and the rest of its list active.
C2_BroadcastCounters ==
    \A j \in JobIds :
        (jobs[j].pc = "done" /\ quiet[j] /\ OnlyBlockedFailures(j)) =>
            LET N == Len(jobs[j].user_ids)
                B == BlockedBy(j)
            IN  /\ jobs[j].sent = N - Cardinality(B)
                /\ jobs[j].failed = Cardinality(B)
                /\ jobs[j].sent + jobs[j].failed = N
                /\ \A id \in Range(jobs[j].user_ids) :
                      Reach(users, id) =
                          IF id \in B THEN "inactive" ELSE "active"

\* a finished undisturbed job that found exactly accounts 2 and 5 blocked
C2_Witness ==
    \E j \in JobIds :
        /\ jobs[j].pc = "done" /\ quiet[j] /\ OnlyBlockedFailures(j)
        /\ BlockedBy(j) = {2, 5}
        /\ Len(jobs[j].user_ids) = NumPreloaded

\* C3: the recipient list is fixed when the job starts: the attempts follow
\* that list position by position, no id is attempted twice in one job, and
\* no attempt goes to an id that /start made active while the job ran.
C3_FixedSnapshot ==
    \A j \in JobIds :
        /\ Len(log[j]) <= Len(jobs[j].user_ids)
        /\ \A k \in 1..Len(log[j]) : log[j][k].id = jobs[j].user_ids[k]
        /\ \A k, m \in 1..Len(log[j]) :
              log[j][k].id = log[j][m].id => k = m
        /\ \A e \in Entries(j) : ~e.wasLate

\* a finished job during which a new account registered and an account the
\* job had deactivated came back
C3_Witness ==
    \E j \in JobIds :
        /\ jobs[j].pc = "done"
        /\ (NumPreloaded + 1) \in late[j]
        /\ (NumPreloaded + 1) \notin Range(jobs[j].user_ids)
        /\ \E e \in Entries(j) : e.deact /\ e.id \in late[j]

\* C6: a job whose handler has ended after at least one attempt has
\* attempted every id of its list and has emitted the final summary.
C6_RunsToCompletion ==
    \A j \in JobIds :
        (jobs[j].pc \in {"done", "aborted"} /\ Len(log[j]) > 0) =>
            /\ jobs[j].pc = "done"
            /\ Len(log[j]) = Len(jobs[j].user_ids)

\* C7: mark_inactive is called for an attempt exactly when the delivery
\* failed because the recipient blocked the bot or no longer exists; any
\* other failure counts as failed and leaves the account's flag as it was,
\* and a delivery that succeeded counts as sent and deactivates nothing.
C7_DeactivateIffPermanent ==
    \A j \in JobIds :
        /\ \A e \in Entries(j) :
              /\ e.deact <=> e.reason \in PermanentReasons
              /\ e.reason \notin PermanentReasons => e.after = e.before
        /\ jobs[j].pc # "idle" =>
              /\ jobs[j].failed = Cardinality(
                    {k \in 1..Len(log[j]) : log[j][k].reason # "delivered"})
              /\ jobs[j].sent = Cardinality(
                    {k \in 1..Len(log[j]) : log[j][k].reason = "delivered"})

\* a job that met a timeout, which left the account active, and a
\* deactivated account, which it flagged inactive
C7_Witness ==
    \E j \in JobIds :
        /\ \E e \in Entries(j) :
              e.reason = "timeout" /\ ~e.deact /\ e.after = "active"
        /\ \E e \in Entries(j) :
              e.reason = "deactivated" /\ e.deact /\ e.after = "inactive"
        /\ jobs[j].failed = 2

(***************************************************************************)
(* Properties of the one-step handlers, checked under SpecRouter.          *)
(***************************************************************************)
\* C1: a stats, export or broadcast step run for a caller other than the
\* configured operator sends nothing and changes no row.
C1_PrivilegedRejected ==
    (last.tag \in {"stats", "export", "broadcast"} /\ last.from # ADMIN_ID) =>
        /\ last.out = <<>>
        /\ ~last.changed

\* a base64 text with nothing to skip: groups of four, padded at the end only
WellFormed(s) ==
    /\ Len(s) % 4 = 0
    /\ \A k \in 1..Len(s) :
          \/ s[k] < 64
          \/ s[k] = PadSym /\ k >= Len(s) - 1
                           /\ (k = Len(s) - 1 => s[Len(s)] = PadSym)

\* the payloads C5 calls impossible to process
CannotProcess(data) ==
    \/ data.json = "invalid"
    \/ data.json = "dict" /\ data.action # "send_result"
    \/ /\ data.json = "dict" /\ data.action = "send_result"
       /\ data.image.kind = "str"
       /\ ~data.image.scheme
       /\ ~WellFormed(Join(data.image.segs))

\* C5: a payload that cannot be processed gets exactly one error reply, no
\* attachment, and changes no row.
C5_CouldNotProcess ==
    (last.tag = "webapp" /\ CannotProcess(last.arg)) =>
        /\ last.out = <<"error">>
        /\ ~last.doc.attached
        /\ ~last.changed

(***************************************************************************)
(* Properties of the registry, checked under SpecRegistry.                 *)
(***************************************************************************)
\* C4: the table never holds two rows with one id, and right after
\* add_user(id, h, n) the row of id carries h and n and is active, whatever
\* the table held for id before.
C4_IdempotentUpsert ==
    /\ \A user_id \in IdsOf(users) : Cardinality(RowsOf(users, user_id)) = 1
    /\ lastReg.op = "add_user" =>
          /\ RowsOf(users, lastReg.id) # {}
          /\ \A r \in RowsOf(users, lastReg.id) :
                /\ r.username = lastReg.username
                /\ r.first_name = lastReg.first_name
                /\ r.active

\* add_user on an account that was inactive, with a handle and a name that
\* differ from the ones its row had
C4_Witness ==
    /\ lastReg.op = "add_user" /\ lastReg.prev = "inactive"
    /\ lastReg.username = None /\ lastReg.first_name = "y"
    /\ Cardinality(users) = NumRegIds
    /\ \E r \in users : r.id # lastReg.id /\ r.username = "a" /\ ~r.active

(***************************************************************************)
(* Properties of the gateway and of main(), checked under SpecGateway.     *)
(***************************************************************************)
IsUpscale(req) == req.method = "POST" /\ req.path = "/upscale"

HasImageField(req) ==
    \E k \in 1..Len(req.multipart.parts) :
        req.multipart.parts[k].name = "image"

\* C8: POST /upscale with a body that has no field named image is answered
\* 400 with an error field, and the provider is not called.
C8_MissingImage ==
    (IsUpscale(http.req) /\ http.req.multipart.ok
        /\ ~HasImageField(http.req)) =>
        /\ http.resp.status = 400
        /\ http.resp.error
        /\ http.calls = <<>>
        /\ http.prov = Unused

\* a request with a field that is not named image, answered 400
C8_Witness ==
    /\ IsUpscale(http.req) /\ http.req.multipart.ok
    /\ http.req.multipart.parts = <<[name |-> "file", data |-> <<255>>]>>
    /\ http.resp.status = 400

\* the handler has image bytes to send: the last field named image is not
\* empty
CarriesImage(req) ==
    /\ IsUpscale(req) /\ req.multipart.ok
    /\ ImageData(req.multipart.parts).present
    /\ ImageData(req.multipart.parts).bytes # <<>>

\* the provider answered with an output reference and the fetch completed
Produced(prov) ==
    /\ prov.post = "ok" /\ prov.json = "dict" /\ prov.has_url
    /\ prov.fetch = "ok"

\* C9: POST /upscale with an image is answered 200 with success, output_url
\* and image_base64 exactly when the provider returned an output reference
\* and the fetch completed, and otherwise 500 with an error field and no
\* image data.
C9_AllOrNothing ==
    CarriesImage(http.req) =>
        /\ http.calls # <<>>
        /\ http.resp.status = IF Produced(http.prov) THEN 200 ELSE 500
        /\ http.resp.status = 200 =>
              /\ http.resp.success = "true"
              /\ http.resp.output_url
              /\ http.resp.image_base64.kind = "str"
              /\ ~http.resp.error
        /\ http.resp.status = 500 =>
              /\ http.resp.error
              /\ http.resp.success # "true"
              /\ ~http.resp.output_url
              /\ http.resp.image_base64 = NoImage

\* the provider returned both an output reference and an error field, and
\* the fetch of the output raised
C9_Witness ==
    /\ CarriesImage(http.req)
    /\ http.prov.has_url /\ http.prov.has_err /\ http.prov.fetch = "raise"
    /\ http.resp.status = 500
    /\ http.calls = <<"post", "get">>

\* C10: when the process has ended after run_bot or run_server ended, its
\* exit status is not zero.
C10_ExitsNonZero ==
    (proc.main = "exited" /\ (proc.bot \in {"returned", "raised"}
                              \/ proc.server \in {"returned", "raised"})) =>
        proc.exit = "nonzero"

(***************************************************************************)
(* The order and the pacing of the attempts, checked under Spec.           *)
(***************************************************************************)
\* the attempts of job j that have finished
Attempted(j) == Len(log[j])

\* C11: within one job the attempts follow the list one at a time: the
\* attempt in flight is the one after all finished ones, the number of
\* finished attempts grows by one, when the attempt in flight finishes, and
\* the attempt for the next id starts only when the sleep that follows the
\* previous attempt has returned.
C11_OneAtATime ==
    /\ [](\A j \in JobIds :
            /\ \A k \in 1..Attempted(j) : log[j][k].id = jobs[j].user_ids[k]
            /\ jobs[j].pc = "send" => Attempted(j) = jobs[j].i
            /\ jobs[j].pc \in {"progress", "sleep"} =>
                  Attempted(j) = jobs[j].i + 1)
    /\ [][\A j \in JobIds :
            /\ log'[j] # log[j] =>
                  \/ log'[j] = <<>>
                  \/ /\ jobs[j].pc = "send"
                     /\ Len(log'[j]) = Attempted(j) + 1
                     /\ jobs'[j].pc # "send"
            /\ (jobs'[j].pc = "send"
                   /\ (jobs[j].pc # "send" \/ jobs'[j].i # jobs[j].i)) =>
                  \/ jobs[j].pc = "status" /\ jobs'[j].i = 0
                  \/ /\ jobs[j].pc = "sleep"
                     /\ jobs'[j].i = jobs[j].i + 1
                     /\ Attempted(j) = jobs'[j].i]_vars

\* the attempt after the first progress edit is in flight: all attempts
\* before it have finished, one of them as a failure
C11_Witness ==
    /\ jobs[1].pc = "send" /\ jobs[1].i = ProgressEvery
    /\ Attempted(1) = ProgressEvery
    /\ jobs[1].failed = 1

(***************************************************************************)
(* The status message of a job, checked under Spec.                        *)
(***************************************************************************)
ProgressEdits(j) ==
    SelectSeq(status_msg[j], LAMBDA w : w.op = "edit" /\ w.kind = "progress")

Summaries(j) == SelectSeq(status_msg[j], LAMBDA w : w.kind = "summary")

\* C18: a job answers with one status message, "0/N", and everything it
\* writes afterwards is an edit of it; the k-th progress edit shows 20k/N
\* and, in a job no call of which has raised, there are as many of them as
\* multiples of 20 the finished attempts have reached; the summary is
\* written once, last, after all N attempts, with sent + failed = N, and a
\* job that has left its loop has written it.
C18_StatusMessage ==
    \A j \in JobIds :
        jobs[j].pc # "idle" =>
            LET W == status_msg[j]
                N == Len(jobs[j].user_ids)
            IN  /\ Len(W) >= 1
                /\ W[1] = ProgressText("answer", 0, N)
                /\ \A k \in 2..Len(W) : W[k].op = "edit"
                /\ \A k \in 1..Len(ProgressEdits(j)) :
                      /\ ProgressEdits(j)[k].attempted = 20 * k
                      /\ ProgressEdits(j)[k].total = N
                      /\ 20 * k <= Attempted(j)
                /\ jobs[j].pc # "aborted" =>
                      Len(ProgressEdits(j)) = Attempted(j) \div 20
                /\ Len(Summaries(j)) <= 1
                /\ Len(Summaries(j)) = 1 =>
                      /\ W[Len(W)] = Summaries(j)[1]
                      /\ Attempted(j) = N
                      /\ Summaries(j)[1].sent + Summaries(j)[1].failed = N
                      /\ Summaries(j)[1].sent = jobs[j].sent
                      /\ Summaries(j)[1].failed = jobs[j].failed
                /\ jobs[j].pc \in {"final", "done"} => Len(Summaries(j)) = 1
                /\ jobs[j].pc \in {"status", "send", "progress", "sleep"} =>
                      Len(Summaries(j)) = 0

\* a finished job over more than 20 accounts: the answer, one progress
\* edit and the summary
C18_Witness ==
    /\ jobs[1].pc = "done"
    /\ Len(jobs[1].user_ids) > 20
    /\ status_msg[1] =
          <<ProgressText("answer", 0, Len(jobs[1].user_ids)),
            ProgressText("edit", 20, Len(jobs[1].user_ids)),
            SummaryText(Len(jobs[1].user_ids) - 2, 2)>>

\* a finished job over no account at all
EmptySnapshotDone ==
    /\ jobs[1].pc = "done"
    /\ status_msg[1] = <<ProgressText("answer", 0, 0), SummaryText(0, 0)>>

(***************************************************************************)
(* The life of a row, checked under SpecRegistry.                          *)
(***************************************************************************)
\* C14: no step removes a row or changes its joined, and a row that a step
\* adds carries the time of that step as joined.
C14_JoinedFixed ==
    [][/\ \A r \in users :
             \E q \in users' : q.id = r.id /\ q.joined = r.joined
       /\ IdsOf(users) \subseteq IdsOf(users')
       /\ \A q \in users' :
             q.id \notin IdsOf(users) => q.joined = now]_vars

\* a later upsert of an account that had been deactivated: the row still
\* carries the time of its first upsert
C14_Witness ==
    /\ lastReg.op = "add_user" /\ lastReg.prev = "inactive"
    /\ now > 0
    /\ \E r \in RowsOf(users, lastReg.id) : r.joined = 0 /\ r.active
    /\ \E r \in users : r.id # lastReg.id /\ r.joined = now

(***************************************************************************)
(* Properties of the registry queries, checked under SpecReports.          *)
(***************************************************************************)
\* C16: get_stats returns the number of rows, the number of active rows
\* and a count of late joiners that takes in every row joined less than 24
\* hours before the call and no row joined more than 24 hours before it;
\* none of the two counts exceeds the total.
C16_StatsWindow ==
    report.op = "stats" =>
        /\ report.total = Cardinality(users)
        /\ report.active = Cardinality({r \in users : r.active})
        /\ report.new_24h >= Cardinality({r \in users : now - r.joined < 24})
        /\ report.new_24h <= Cardinality({r \in users : now - r.joined <= 24})
        /\ report.new_24h <= report.total
        /\ report.active <= report.total

\* a call 25 hours after one account joined and 1 hour after another,
\* one of the two inactive: only the second is counted
C16_Witness ==
    /\ report.op = "stats"
    /\ \E r \in users : now - r.joined = 25
    /\ \E r \in users : now - r.joined = 1 /\ ~r.active
    /\ report.total = 2 /\ report.new_24h = 1 /\ report.active = 1

\* the sequence s the other way round
Reverse(s) == [k \in 1..Len(s) |-> s[Len(s) + 1 - k]]

\* C17: export_users returns each row of the table once, active or not,
\* the account that registered last first; the lines cmd_export writes
\* after the header follow that order.
C17_ExportOrder ==
    report.op = "export" =>
        /\ Len(report.rows) = Cardinality(users)
        /\ Range(report.rows) = users
        /\ [k \in 1..Len(report.rows) |-> report.rows[k].id]
              = Reverse(arrivals)
        /\ \A k, m \in 1..Len(report.rows) :
              k < m => report.rows[k].joined > report.rows[m].joined
        /\ Len(report.csv) = Len(report.rows) + 1
        /\ \A k \in 1..Len(report.rows) :
              report.csv[k + 1][1] = report.rows[k].id

\* accounts 2, 3, 1 registered in that order; later 3 was deactivated and
\* 2 upserted again: the export is 1, 3, 2
C17_Witness ==
    /\ report.op = "export"
    /\ arrivals = <<2, 3, 1>>
    /\ [k \in 1..Len(report.rows) |-> report.rows[k].id] = <<1, 3, 2>>
    /\ ~report.rows[2].active
    /\ report.rows[3].active /\ report.rows[1].active
    /\ now > report.rows[1].joined

(***************************************************************************)
(* The headers of the gateway's responses, checked under SpecGateway.      *)
(***************************************************************************)
\* C13: every response to POST /upscale, GET /health and OPTIONS /upscale
\* carries the three Access-Control headers; POST /upscale is answered 200,
\* 400 or 500, GET /health 200, and OPTIONS /upscale 200 with an empty body,
\* by a handler other than handle_upscale and with no call to the provider.
C13_CorsEverywhere ==
    http.req # NoRequest =>
        /\ <<"Access-Control-Allow-Origin", "*">> \in http.resp.headers
        /\ <<"Access-Control-Allow-Methods", "POST, GET, OPTIONS">>
              \in http.resp.headers
        /\ <<"Access-Control-Allow-Headers", "Content-Type">>
              \in http.resp.headers
        /\ http.req.method = "POST" => http.resp.status \in {200, 400, 500}
        /\ http.req.method = "GET" => http.resp.status = 200
        /\ http.req.method = "OPTIONS" =>
              /\ http.resp.status = 200
              /\ http.resp.body = "empty"
              /\ http.by # "handle_upscale"
              /\ http.calls = <<>>

\* an OPTIONS request that carries an image, answered 200 with an empty
\* body and the three headers
C13_Witness ==
    /\ http.req.method = "OPTIONS"
    /\ http.req.multipart.parts # <<>>
    /\ http.resp.status = 200 /\ http.resp.body = "empty"
    /\ Cardinality(http.resp.headers) = 3

\* a POST answered 500 by the provider's failure, with the three headers
ProviderFailureWithHeaders ==
    /\ http.req.method = "POST" /\ http.resp.status = 500
    /\ http.resp.success = "false"
    /\ Cardinality(http.resp.headers) = 3

(***************************************************************************)
(* The image from the provider to the chat, checked under SpecRoundTrip.   *)
(***************************************************************************)
\* C15: the image_base64 of a 200 response decodes to the bytes of the
\* resource the provider's output reference points at, and a send_result
\* payload whose image is that field gets those bytes as the attachment.
C15_RoundTrip ==
    http.resp.status = 200 =>
        /\ http.resp.image_base64.kind = "str"
        /\ http.resp.image_base64.scheme
        /\ ImageBytes(http.resp.image_base64).ok
        /\ ImageBytes(http.resp.image_base64).bytes = http.prov.resource
        /\ (last.tag = "webapp"
               /\ last.arg = SendResult(http.resp.image_base64)) =>
              /\ Head(last.out) = "document"
              /\ last.doc = [attached |-> TRUE, bytes |-> http.prov.resource]

\* a resource of two bytes, the last group of its base64 text padded,
\* delivered to the account as it was fetched
C15_Witness ==
    /\ http.resp.status = 200
    /\ http.prov.resource = <<165, 255>>
    /\ last.tag = "webapp"
    /\ last.arg = SendResult(http.resp.image_base64)
    /\ last.out = <<"document">>
    /\ last.doc.bytes = <<165, 255>>

(***************************************************************************)
(* What each kind of event writes, checked under SpecRouter.               *)
(***************************************************************************)
\* the message is the command alone, or the command and white space
EmptyArgument(txt) ==
    /\ Len(txt) >= 1 /\ txt[1] = "/broadcast"
    /\ \A k \in 2..Len(txt) : txt[k] = " "

\* the rows of us other than the row of user_id
Others(us, user_id) == {r \in us : r.id # user_id}

\* C19: a step that changes the table is the step of a start event, which
\* changes or adds the row of its sender alone, or a step of a running
\* job, which does nothing but clear the active flag of ids of that job's
\* list; help, photo, stats, export, webapp and unrecognized events, and a
\* broadcast whose text is empty, change no row; a broadcast whose text is
\* empty starts no job and makes no attempt, its one reply is the usage
\* text.
C19_ScopedWrites ==
    /\ [](/\ last.tag \in {"help", "photo", "stats", "export", "webapp",
                           "unrecognized"} => ~last.changed
          /\ (last.tag = "broadcast" /\ EmptyArgument(last.text)) =>
                /\ ~last.changed
                /\ last.out = IF Rejected(last.from) THEN <<>>
                               ELSE <<"usage">>)
    /\ [][/\ users' # users =>
              \/ /\ last'.tag = "start"
                 /\ Others(users', last'.from) = Others(users, last'.from)
                 /\ Cardinality(RowsOf(users', last'.from)) = 1
              \/ /\ last'.tag = "broadcast"
                 /\ IdsOf(users') = IdsOf(users)
                 /\ \E j \in JobIds :
                       /\ Running(jobs[j])
                       /\ \A r \in users \ users' :
                             /\ r.id \in Range(jobs[j].user_ids)
                             /\ r.active
                             /\ users' \ users =
                                   {[r EXCEPT !.active = FALSE]}
          /\ last'.tag \in {"help", "photo", "stats", "export", "webapp",
                             "unrecognized"} => users' = users
          /\ (last'.tag = "broadcast" /\ EmptyArgument(last'.text)) =>
                 /\ users' = users
                 /\ jobs' = jobs
                 /\ log' = log]_vars

\* the operator sends "/broadcast " to a table that a start event and a
\* job have changed before: the usage text, and nothing else
C19_Witness ==
    /\ last.tag = "broadcast"
    /\ last.text = <<"/broadcast", " ">>
    /\ last.out = <<"usage">>
    /\ Reach(users, 1) = "inactive"
    /\ Reach(users, NumRouterRows + 1) = "active"
    /\ jobs[1].pc = "done"

(***************************************************************************)
(* Two jobs at a time, checked under SpecTwoJobs.                          *)
(***************************************************************************)
\* job j takes its list in this step
TakesSnapshot(j) == jobs[j].pc # "status" /\ jobs'[j].pc = "status"

RegistryWait == thread # OnLoop

\* the job waits for the platform's answer to a message or an edit
ChatWait == jobs[1].pc \in {"status", "send", "progress", "final"}

\* the job's sleep has been started
PacingWait == jobs[1].pc = "sleep"

\* C12: while an operation waits for the registry or for the platform,
\* the handler of another event and a request of the gateway can take
\* their step, and a job whose sleep is over can take its next one.
C12_Responsive ==
    /\ (RegistryWait \/ ChatWait) => ENABLED OtherOperations
    /\ (RegistryWait /\ PacingWait) => ENABLED JobOperations

\* while the job waits for the platform and no registry call is open, the
\* other operations can take their step
AwaitsGiveWay ==
    (ChatWait /\ ~RegistryWait) => ENABLED OtherOperations

\* /start is inside add_user while the job waits for a delivery
BlockedInAddUser ==
    /\ RegistryWait /\ jobs[1].pc = "send"
    /\ ~ENABLED OtherOperations /\ ~ENABLED JobOperations

====
